---- MODULE Spec2Model ----
(***************************************************************************)
(* Model of the rule-based adverse-event detector and validator of         *)
(* src/src/genai/adverse_events.py, as called by the insights handler of   *)
(* src/src/genai/genai_insights.py.                                        *)
(*                                                                         *)
(* Texts are TLA+ strings over ASCII; Python's 0-based positions are kept  *)
(* (find returns -1 when absent) and converted at SubSeq.  Confidences are *)
(* IEEE-754 binary64 numbers, kept exactly: see the Float section.         *)
(***************************************************************************)
EXTENDS Integers, Sequences, FiniteSets, TLC

VARIABLES text, pc, detected_events, events, unique_events, lexicon, calls,
          request, insights, response, trace, frame

vars == <<text, pc, detected_events, events, unique_events, lexicon, calls,
          request, insights, response, trace, frame>>

---------------------------------------------------------------------------
(* Bounds of the explored inputs.                                          *)

\* Longest input text, in fragments of Fragments.
MaxFrags == 3

\* Longest argument list handed to validate_adverse_events directly.
MaxEvents == 3
\* The number of concurrent calls.
MaxCalls == 2
CallIds == 1..MaxCalls

---------------------------------------------------------------------------
(* Float: Python floats (binary64, round to nearest, ties to even).        *)
(*                                                                         *)
(* A float is [t, e], standing for the real number  t/10 + e * U  with     *)
(* U = 2^-56 / 10: t counts tenths and e is the (small) distance of the    *)
(* binary64 number from that decimal.  In units of U a tenth is 2^56, and  *)
(* 2^56 mod 640 = 256, so the residue of a value modulo an ulp of          *)
(* 10, 20, ..., 320 units (the binades [1/16,1/8) ... [2,4)) is computed   *)
(* from t and e alone.  Examples: the literal 0.7 is 0.7 - 32 U, and       *)
(* 0.7 + 0.1 rounds to 0.8 - 48 U = 0.7999999999999999.                    *)

Float(t, e) == [t |-> t, e |-> e]

\* The ulp, in units of U, of the binade that holds t/10 + e*U (t >= 1).
Ulp(t, e) ==
    IF t >= 20 THEN 320
    ELSE IF t > 10 \/ (t = 10 /\ e >= 0) THEN 160
    ELSE IF t > 5 \/ (t = 5 /\ e >= 0) THEN 80
    ELSE IF t >= 3 THEN 40
    ELSE IF t = 2 THEN 20
    ELSE 10

\* The binary64 number nearest to the real t/10 + e*U, ties to even.
FloatRound(t, e) ==
    IF t <= 0 THEN Float(t, e)
    ELSE LET u    == Ulp(t, e)
             rem  == (256 * t + e) % u
             down == e - rem
             odd  == ((256 * t + down) % (2 * u)) = u
         IN  IF rem = 0 THEN Float(t, e)
             ELSE IF 2 * rem < u THEN Float(t, down)
             ELSE IF 2 * rem > u THEN Float(t, down + u)
             ELSE IF odd THEN Float(t, down + u)
             ELSE Float(t, down)

FloatAdd(a, b) == FloatRound(a.t + b.t, a.e + b.e)

FloatSub(a, b) == FloatRound(a.t - b.t, a.e - b.e)

FloatLess(a, b) == a.t < b.t \/ (a.t = b.t /\ a.e < b.e)

FloatLeq(a, b) == ~FloatLess(b, a)

\* Python's max and min of two arguments return the first one unless the
\* second is strictly greater (smaller).
FloatMax(a, b) == IF FloatLess(a, b) THEN b ELSE a

FloatMin(a, b) == IF FloatLess(b, a) THEN b ELSE a

\* The float literals of the source.
F_0_0 == Float(0, 0)
F_0_1 == Float(1, 4)
F_0_3 == Float(3, -8)
F_0_7 == Float(7, -32)
F_1_0 == Float(10, 0)

---------------------------------------------------------------------------
(* Strings: the str operations the source uses.                            *)

UpperLetters == "ABCDEFGHIJKLMNOPQRSTUVWXYZ"
LowerLetters == "abcdefghijklmnopqrstuvwxyz"

\* Python's  s[start:end]  for 0 <= start, end <= len(s).
Slice(s, start, end) == SubSeq(s, start + 1, end)

\* 1-based position of the one-character string c in alphabet, or 0.
IndexIn(alphabet, c) ==
    IF \E i \in 1..Len(alphabet) : SubSeq(alphabet, i, i) = c
    THEN CHOOSE i \in 1..Len(alphabet) : SubSeq(alphabet, i, i) = c
    ELSE 0

\* A string of this module holds ASCII only. CapitalIDot stands for the
\* character U+0130 (capital I with dot above), the one character that
\* str.lower() maps to two: "i" followed by U+0307 (combining dot above),
\* for which DotAbove stands.
CapitalIDot == "#"
DotAbove == "^"

LowerChar(c) ==
    LET i == IndexIn(UpperLetters, c)
    IN  IF c = CapitalIDot THEN "i" \o DotAbove
        ELSE IF i > 0 THEN SubSeq(LowerLetters, i, i) ELSE c

UpperChar(c) ==
    LET i == IndexIn(LowerLetters, c)
    IN  IF i > 0 THEN SubSeq(UpperLetters, i, i) ELSE c

IsLetter(c) == IndexIn(UpperLetters, c) > 0 \/ IndexIn(LowerLetters, c) > 0

\* str.lower()
RECURSIVE Lower(_)
Lower(s) == IF s = "" THEN "" ELSE LowerChar(Head(s)) \o Lower(Tail(s))

\* needle in haystack
Contains(haystack, needle) ==
    \E i \in 0..(Len(haystack) - Len(needle)) :
        Slice(haystack, i, i + Len(needle)) = needle

\* str.find(needle): the lowest 0-based position, or -1.
RECURSIVE FindFrom(_, _, _)
FindFrom(haystack, needle, i) ==
    IF i + Len(needle) > Len(haystack) THEN -1
    ELSE IF Slice(haystack, i, i + Len(needle)) = needle THEN i
    ELSE FindFrom(haystack, needle, i + 1)

Find(haystack, needle) == FindFrom(haystack, needle, 0)

\* The whitespace str.strip() removes (the ASCII part of it).
Whitespace == {" ", "\t", "\n", "\r", "\f"}

RECURSIVE LStrip(_)
LStrip(s) ==
    IF s # "" /\ Head(s) \in Whitespace THEN LStrip(Tail(s)) ELSE s

RECURSIVE RStrip(_)
RStrip(s) ==
    IF s # "" /\ SubSeq(s, Len(s), Len(s)) \in Whitespace
    THEN RStrip(SubSeq(s, 1, Len(s) - 1))
    ELSE s

\* str.strip()
Strip(s) == RStrip(LStrip(s))

\* event_name.replace('_', ' ')
RECURSIVE ReplaceUnderscore(_)
ReplaceUnderscore(s) ==
    IF s = "" THEN ""
    ELSE (IF Head(s) = "_" THEN " " ELSE Head(s)) \o ReplaceUnderscore(Tail(s))

\* str.title(): a letter after a non-letter is upper-cased, any other
\* letter lower-cased.
RECURSIVE TitleFrom(_, _)
TitleFrom(s, afterLetter) ==
    IF s = "" THEN ""
    ELSE (IF afterLetter THEN LowerChar(Head(s)) ELSE UpperChar(Head(s)))
         \o TitleFrom(Tail(s), IsLetter(Head(s)))

Title(s) == TitleFrom(s, FALSE)

---------------------------------------------------------------------------
(* The lexicon.  A Python dict keeps insertion order, so the categories,   *)
(* the keywords and the severity tiers are sequences.                      *)

SAFETY_CONCERNS == <<
    [name |-> "injury",
     keywords |-> <<"injury", "hurt", "injured", "wound", "cut", "bruise", "broken">>,
     severity_indicators |-> <<
        [severity |-> "minor",    indicators |-> <<"small", "slight", "little">>],
        [severity |-> "moderate", indicators |-> <<"bad", "serious">>],
        [severity |-> "severe",   indicators |-> <<"major", "severe", "emergency">>] >>],
    [name |-> "allergic_reaction",
     keywords |-> <<"allergic", "allergy", "reaction", "rash", "swelling", "itchy">>,
     severity_indicators |-> <<
        [severity |-> "minor",    indicators |-> <<"mild", "slight">>],
        [severity |-> "moderate", indicators |-> <<"bad", "uncomfortable">>],
        [severity |-> "severe",   indicators |-> <<"severe", "anaphylaxis", "emergency">>] >>],
    [name |-> "burn",
     keywords |-> <<"burn", "burned", "burning", "hot", "scalded">>,
     severity_indicators |-> <<
        [severity |-> "minor",    indicators |-> <<"small", "minor">>],
        [severity |-> "moderate", indicators |-> <<"painful", "blistered">>],
        [severity |-> "severe",   indicators |-> <<"severe", "third degree">>] >>],
    [name |-> "toxic_exposure",
     keywords |-> <<"toxic", "poison", "chemical", "fumes", "exposure">>,
     severity_indicators |-> <<
        [severity |-> "minor",    indicators |-> <<"mild", "slight">>],
        [severity |-> "moderate", indicators |-> <<"sick", "nauseous">>],
        [severity |-> "severe",   indicators |-> <<"poisoned", "emergency">>] >>],
    [name |-> "electrical_hazard",
     keywords |-> <<"shock", "electric", "electrical", "sparks", "short circuit">>,
     severity_indicators |-> <<
        [severity |-> "minor",    indicators |-> <<"small", "minor">>],
        [severity |-> "moderate", indicators |-> <<"painful", "burned">>],
        [severity |-> "severe",   indicators |-> <<"severe", "unconscious">>] >>],
    [name |-> "choking_hazard",
     keywords |-> <<"choke", "choking", "swallowed", "stuck", "throat">>,
     severity_indicators |-> <<
        [severity |-> "minor",    indicators |-> <<"small", "coughed up">>],
        [severity |-> "moderate", indicators |-> <<"difficulty", "breathing">>],
        [severity |-> "severe",   indicators |-> <<"can't breathe", "emergency">>] >> ] >>

\* The table of get_safety_category.
safety_categories == <<
    [name |-> "injury",            label |-> "Physical Harm"],
    [name |-> "allergic_reaction", label |-> "Allergic Response"],
    [name |-> "burn",              label |-> "Thermal Injury"],
    [name |-> "toxic_exposure",    label |-> "Chemical Hazard"],
    [name |-> "electrical_hazard", label |-> "Electrical Safety"],
    [name |-> "choking_hazard",    label |-> "Airway Obstruction"] >>

negations == <<"no", "not", "without", "never", "none">>

\* The default of extract_context's context_length parameter.
context_length == 30

---------------------------------------------------------------------------
(* The detector.                                                           *)

\* Mutant of determine_severity: the indicators of every category are
\* scanned, category by category, instead of those handed in.
determine_severity_any_category(txt, severity_indicators) ==
    LET hit(ci, i) ==
            \E j \in 1..Len(SAFETY_CONCERNS[ci].severity_indicators[i].indicators) :
                Contains(txt, SAFETY_CONCERNS[ci].severity_indicators[i].indicators[j])
        hits == {<<ci, i>> \in (1..Len(SAFETY_CONCERNS)) \X (1..3) : hit(ci, i)}
    IN  IF hits = {} THEN "mild"
        ELSE LET first == CHOOSE h \in hits :
                              \A g \in hits :
                                  h[1] < g[1] \/ (h[1] = g[1] /\ h[2] <= g[2])
             IN  SAFETY_CONCERNS[first[1]].severity_indicators[first[2]].severity

\* The first tier, in declaration order, one of whose indicators occurs in
\* txt; 'mild' when none does.
RECURSIVE severity_loop(_, _, _)
severity_loop(txt, severity_indicators, i) ==
    IF i > Len(severity_indicators) THEN "mild"
    ELSE IF \E j \in 1..Len(severity_indicators[i].indicators) :
                Contains(txt, severity_indicators[i].indicators[j])
         THEN severity_indicators[i].severity
         ELSE severity_loop(txt, severity_indicators, i + 1)

\* Mutant of determine_severity: the tiers are tried from the last to the
\* first, so the most severe tier with an indicator in txt wins.
determine_severity_most_severe(txt, severity_indicators) ==
    LET hits == {i \in 1..Len(severity_indicators) :
                    \E j \in 1..Len(severity_indicators[i].indicators) :
                        Contains(txt, severity_indicators[i].indicators[j])}
    IN  IF hits = {} THEN "mild"
        ELSE severity_indicators[CHOOSE i \in hits : \A h \in hits : h <= i].severity

determine_severity(txt, severity_indicators) ==
    severity_loop(txt, severity_indicators, 1)

\* Mutant of preceding_text: a window of 2 characters instead of 20.
preceding_text_short(txt, keyword_pos) ==
    Slice(txt, IF keyword_pos - 2 > 0 THEN keyword_pos - 2 ELSE 0, keyword_pos)

\* The text[max(0, keyword_pos-20):keyword_pos] of calculate_confidence.
preceding_text(txt, keyword_pos) ==
    Slice(txt, IF keyword_pos - 20 > 0 THEN keyword_pos - 20 ELSE 0, keyword_pos)

\* Mutant of negation_found: the whole text before the keyword is searched.
negation_found_anywhere_before(txt, keyword) ==
    LET keyword_pos == Find(txt, keyword)
    IN  /\ keyword_pos > 0
        /\ \E n \in 1..Len(negations) :
              Contains(Slice(txt, 0, keyword_pos), negations[n])

negation_found(txt, keyword) ==
    LET keyword_pos == Find(txt, keyword)
    IN  /\ keyword_pos > 0
        /\ \E n \in 1..Len(negations) :
              Contains(preceding_text(txt, keyword_pos), negations[n])

keyword_count(txt, event_data) ==
    Cardinality({k \in 1..Len(event_data.keywords) :
                    Contains(txt, event_data.keywords[k])})

severity_found(txt, event_data) ==
    \E i \in 1..Len(event_data.severity_indicators) :
        \E j \in 1..Len(event_data.severity_indicators[i].indicators) :
            Contains(txt, event_data.severity_indicators[i].indicators[j])

\* min(1.0, max(0.1, base_confidence))
clamp(base_confidence) == FloatMin(F_1_0, FloatMax(F_0_1, base_confidence))

\* Mutant of calculate_confidence: the negation penalty is the base value
\* 0.7 instead of 0.3 and the result is returned without the clamp.
calculate_confidence_unclamped(txt, keyword, event_data) ==
    LET c0 == F_0_7
        c1 == IF keyword_count(txt, event_data) > 1 THEN FloatAdd(c0, F_0_1) ELSE c0
        c2 == IF severity_found(txt, event_data) THEN FloatAdd(c1, F_0_1) ELSE c1
        c3 == IF negation_found(txt, keyword) THEN FloatSub(c2, F_0_7) ELSE c2
    IN  c3

\* Mutant of calculate_confidence: the negation penalty is added.
calculate_confidence_penalty_added(txt, keyword, event_data) ==
    LET c0 == F_0_7
        c1 == IF keyword_count(txt, event_data) > 1 THEN FloatAdd(c0, F_0_1) ELSE c0
        c2 == IF severity_found(txt, event_data) THEN FloatAdd(c1, F_0_1) ELSE c1
        c3 == IF negation_found(txt, keyword) THEN FloatAdd(c2, F_0_3) ELSE c2
    IN  clamp(c3)

\* Mutant of calculate_confidence: 0.1 is added for every keyword beyond
\* the first.
calculate_confidence_per_keyword(txt, keyword, event_data) ==
    LET RECURSIVE boost(_, _)
        boost(c, n) == IF n <= 1 THEN c ELSE boost(FloatAdd(c, F_0_1), n - 1)
        c1 == boost(F_0_7, keyword_count(txt, event_data))
        c2 == IF severity_found(txt, event_data) THEN FloatAdd(c1, F_0_1) ELSE c1
        c3 == IF negation_found(txt, keyword) THEN FloatSub(c2, F_0_3) ELSE c2
    IN  clamp(c3)

\* Mutant of calculate_confidence: the negation penalty is 0.7, so a negated
\* keyword falls below the lower clamp bound.
calculate_confidence_penalty_0_7(txt, keyword, event_data) ==
    LET c0 == F_0_7
        c1 == IF keyword_count(txt, event_data) > 1 THEN FloatAdd(c0, F_0_1) ELSE c0
        c2 == IF severity_found(txt, event_data) THEN FloatAdd(c1, F_0_1) ELSE c1
        c3 == IF negation_found(txt, keyword) THEN FloatSub(c2, F_0_7) ELSE c2
    IN  clamp(c3)

calculate_confidence(txt, keyword, event_data) ==
    LET c0 == F_0_7
        c1 == IF keyword_count(txt, event_data) > 1 THEN FloatAdd(c0, F_0_1) ELSE c0
        c2 == IF severity_found(txt, event_data) THEN FloatAdd(c1, F_0_1) ELSE c1
        c3 == IF negation_found(txt, keyword) THEN FloatSub(c2, F_0_3) ELSE c2
    IN  clamp(c3)

get_safety_category(event_name) ==
    IF \E i \in 1..Len(safety_categories) : safety_categories[i].name = event_name
    THEN safety_categories[
             CHOOSE i \in 1..Len(safety_categories) :
                 safety_categories[i].name = event_name].label
    ELSE Title(ReplaceUnderscore(event_name))

extract_context(txt, keyword, ctx_len) ==
    LET keyword_pos == Find(Lower(txt), Lower(keyword))
        start == IF keyword_pos - ctx_len > 0 THEN keyword_pos - ctx_len ELSE 0
        end   == IF keyword_pos + Len(keyword) + ctx_len < Len(txt)
                 THEN keyword_pos + Len(keyword) + ctx_len ELSE Len(txt)
        context == Strip(Slice(txt, start, end))
    IN  IF keyword_pos = -1 THEN keyword
        ELSE (IF start > 0 THEN "..." ELSE "") \o context
             \o (IF end < Len(txt) THEN "..." ELSE "")

\* The dict appended for a matched keyword.
detection(txt, text_lower, event_name, event_data, keyword) ==
    [event           |-> ReplaceUnderscore(event_name),
     severity        |-> determine_severity(text_lower, event_data.severity_indicators),
     confidence      |-> calculate_confidence(text_lower, keyword, event_data),
     safety_category |-> get_safety_category(event_name),
     detected_phrase |-> extract_context(txt, keyword, context_length)]

\* Mutant of keyword_loop: the operands of "in" are swapped.
RECURSIVE keyword_loop_swapped(_, _, _, _, _)
keyword_loop_swapped(txt, text_lower, event_name, event_data, k) ==
    IF k > Len(event_data.keywords) THEN <<>>
    ELSE IF Contains(event_data.keywords[k], text_lower)
         THEN <<detection(txt, text_lower, event_name, event_data,
                          event_data.keywords[k])>>
         ELSE keyword_loop_swapped(txt, text_lower, event_name, event_data, k + 1)

\* Mutant of keyword_loop: no break after a keyword that occurs.
RECURSIVE keyword_loop_nobreak(_, _, _, _, _)
keyword_loop_nobreak(txt, text_lower, event_name, event_data, k) ==
    IF k > Len(event_data.keywords) THEN <<>>
    ELSE (IF Contains(text_lower, event_data.keywords[k])
          THEN <<detection(txt, text_lower, event_name, event_data,
                           event_data.keywords[k])>>
          ELSE <<>>)
         \o keyword_loop_nobreak(txt, text_lower, event_name, event_data, k + 1)

\* The inner loop, from keyword k on: what it appends to detected_events.
\* The break ends it at the first keyword that occurs.
RECURSIVE keyword_loop(_, _, _, _, _)
keyword_loop(txt, text_lower, event_name, event_data, k) ==
    IF k > Len(event_data.keywords) THEN <<>>
    ELSE IF Contains(text_lower, event_data.keywords[k])
         THEN <<detection(txt, text_lower, event_name, event_data,
                          event_data.keywords[k])>>
         ELSE keyword_loop(txt, text_lower, event_name, event_data, k + 1)

\* Mutant of category_loop: the return statement is inside the loop, so
\* only the first category is scanned.
category_loop_return_in_loop(txt, text_lower, ci) ==
    IF ci > Len(SAFETY_CONCERNS) THEN <<>>
    ELSE keyword_loop(txt, text_lower, SAFETY_CONCERNS[ci].name,
                      SAFETY_CONCERNS[ci], 1)

\* Mutant of category_loop: a detection is inserted at the head of
\* detected_events instead of appended.
RECURSIVE category_loop_prepend(_, _, _)
category_loop_prepend(txt, text_lower, ci) ==
    IF ci > Len(SAFETY_CONCERNS) THEN <<>>
    ELSE category_loop_prepend(txt, text_lower, ci + 1)
         \o keyword_loop(txt, text_lower, SAFETY_CONCERNS[ci].name,
                         SAFETY_CONCERNS[ci], 1)

\* The outer loop, from category ci on.
RECURSIVE category_loop(_, _, _)
category_loop(txt, text_lower, ci) ==
    IF ci > Len(SAFETY_CONCERNS) THEN <<>>
    ELSE keyword_loop(txt, text_lower, SAFETY_CONCERNS[ci].name,
                      SAFETY_CONCERNS[ci], 1)
         \o category_loop(txt, text_lower, ci + 1)

detect_adverse_events(txt) == category_loop(txt, Lower(txt), 1)

\* event[key]: a missing key raises KeyError.
KeyError(event, key) == key \notin DOMAIN event

\* detect_adverse_events raises when a lexicon entry lacks a key the loops
\* subscript: 'keywords' in every category, 'severity_indicators' in the
\* categories a keyword triggers. Everything else it does to a string
\* (lower, in, find, slicing, strip) raises nothing.
detect_raises(txt) ==
    LET text_lower == Lower(txt)
    IN  \E ci \in 1..Len(SAFETY_CONCERNS) :
            \/ KeyError(SAFETY_CONCERNS[ci], "keywords")
            \/ /\ KeyError(SAFETY_CONCERNS[ci], "severity_indicators")
               /\ \E k \in 1..Len(SAFETY_CONCERNS[ci].keywords) :
                     Contains(text_lower, SAFETY_CONCERNS[ci].keywords[k])

---------------------------------------------------------------------------
(* The validator.                                                          *)

\* dict.get(key, default)
Get(event, key, default) == IF key \in DOMAIN event THEN event[key] ELSE default

\* dict.get(key): None when the key is missing.
None == [some |-> FALSE]
Some(v) == [some |-> TRUE, val |-> v]
GetOrNone(event, key) == IF key \in DOMAIN event THEN Some(event[key]) ELSE None

\* A confidence that is a float; comparing anything else with 0.3 raises
\* TypeError.
IsFloat(v) == DOMAIN v = {"t", "e"}

\* Mutant of confidence_filter_raises: event['confidence'] in place of
\* event.get('confidence', 0).
confidence_filter_raises_subscript(evs) ==
    \E i \in 1..Len(evs) :
        \/ KeyError(evs[i], "confidence")
        \/ ~IsFloat(Get(evs[i], "confidence", F_0_0))

\* The first loop raises when a confidence it compares is no number; a
\* missing confidence is read as the default 0.
confidence_filter_raises(evs) ==
    \E i \in 1..Len(evs) : ~IsFloat(Get(evs[i], "confidence", F_0_0))

\* validate_adverse_events raises when its first loop does: the second loop
\* reads the name with event.get('event'), and a name that is a string or
\* None is hashable.
validate_raises(evs) == confidence_filter_raises(evs)

\* Mutant of confidence_filter: >= instead of >.
confidence_filter_geq(evs) ==
    SelectSeq(evs, LAMBDA event : FloatLeq(F_0_3, Get(event, "confidence", F_0_0)))

\* Mutant of confidence_filter: the threshold is 0.4.
confidence_filter_above_0_4(evs) ==
    SelectSeq(evs, LAMBDA event :
                       FloatLess(Float(4, 16), Get(event, "confidence", F_0_0)))

\* The first loop: only events with confidence > 0.3.
confidence_filter(evs) ==
    SelectSeq(evs, LAMBDA event : FloatLess(F_0_3, Get(event, "confidence", F_0_0)))

\* The second loop, from position i on, with the names seen so far.
RECURSIVE dedup_loop(_, _, _)
dedup_loop(validated_events, i, seen_events) ==
    IF i > Len(validated_events) THEN <<>>
    ELSE LET event_name == GetOrNone(validated_events[i], "event")
         IN  IF event_name \notin seen_events
             THEN <<validated_events[i]>>
                  \o dedup_loop(validated_events, i + 1, seen_events \cup {event_name})
             ELSE dedup_loop(validated_events, i + 1, seen_events)

\* Mutant of remove_duplicates: an event is dropped only when an equal
\* event (not one of the same name) was kept before.
remove_duplicates_equal_events(validated_events) ==
    LET RECURSIVE loop(_, _)
        loop(i, unique) ==
            IF i > Len(validated_events) THEN unique
            ELSE IF \E j \in 1..Len(unique) : unique[j] = validated_events[i]
                 THEN loop(i + 1, unique)
                 ELSE loop(i + 1, Append(unique, validated_events[i]))
    IN  loop(1, <<>>)

\* Mutant of remove_duplicates: the last event of a name is kept instead of
\* the first.
remove_duplicates_keep_last(validated_events) ==
    LET RECURSIVE loop(_)
        loop(i) ==
            IF i > Len(validated_events) THEN <<>>
            ELSE IF \E j \in (i + 1)..Len(validated_events) :
                        GetOrNone(validated_events[j], "event")
                            = GetOrNone(validated_events[i], "event")
                 THEN loop(i + 1)
                 ELSE <<validated_events[i]>> \o loop(i + 1)
    IN  loop(1)

\* Mutant of remove_duplicates: duplicates are removed from the list while
\* it is iterated, so the event after a removed one is kept unchecked.
remove_duplicates_while_iterating(validated_events) ==
    LET RECURSIVE loop(_, _, _)
        loop(i, seen_events, skip) ==
            IF i > Len(validated_events) THEN <<>>
            ELSE LET event_name == GetOrNone(validated_events[i], "event")
                 IN  IF skip
                     THEN <<validated_events[i]>> \o loop(i + 1, seen_events, FALSE)
                     ELSE IF event_name \notin seen_events
                     THEN <<validated_events[i]>>
                          \o loop(i + 1, seen_events \cup {event_name}, FALSE)
                     ELSE loop(i + 1, seen_events, TRUE)
    IN  loop(1, {}, FALSE)

remove_duplicates(validated_events) == dedup_loop(validated_events, 1, {})

validate_adverse_events(evs) == remove_duplicates(confidence_filter(evs))

---------------------------------------------------------------------------
(* Inputs.                                                                 *)

\* The pieces the explored texts are made of: keywords of four categories
\* (two of one category, one in upper case), severity indicators, a
\* negation word and blanks.  "burn" followed by "ed" is the keyword (and
\* electrical-hazard indicator) "burned".
Fragments ==
    {"burn", "ed", "hot ", "rash ", "Cut ", "shock ", "no ", "severe ", "small ", " "}

RECURSIVE FragTexts(_)
FragTexts(n) ==
    IF n = 0 THEN {""}
    ELSE {t \o f : t \in FragTexts(n - 1), f \in Fragments}

\* The texts of the test script and of the documented scenarios.
HotDeviceText ==
    "The device got very hot and burned my hand during use. This is dangerous!"
NoBurnsText == "no burns were found"
SevereBurnsText == "severe burns were found"
EverythingFineText ==
    "Everything is fine, no injuries, no burns, nothing bad happened"


\* Two keywords of one category, a severity indicator and a negation.
AllAdjustmentsText == "never a severe burn, it was not hot"

\* A negation that ends 18, resp. 19, characters before the keyword, one
\* after the keyword, and one before the second occurrence of the keyword.
NegationInWindowText == "no xxxxxxxxxxxxxxxx burn"
NegationBeforeWindowText == "no xxxxxxxxxxxxxxxxx burn"
NegationAfterText == "a burn, no"
NegationBeforeLaterText == "a burn and then no burn"

\* A keyword with exactly 30, resp. 31, characters on either side, and one
\* with only blanks in the 30 characters before it.
ContextFitsText ==
    "xxxxxxxxxxxxxxxxxxxxxxxxxxxxxxburnyyyyyyyyyyyyyyyyyyyyyyyyyyyyyy"
ContextCutText ==
    "xxxxxxxxxxxxxxxxxxxxxxxxxxxxxxxburnyyyyyyyyyyyyyyyyyyyyyyyyyyyyyyy"
ContextBlankText == "x                               burn"

\* 31 characters that each lower to two, then a keyword.
CapitalIDotText ==
    "###############################burn"

ScenarioTexts ==
    {HotDeviceText, NoBurnsText, SevereBurnsText, EverythingFineText,
     AllAdjustmentsText, NegationInWindowText, NegationBeforeWindowText,
     NegationAfterText, NegationBeforeLaterText, ContextFitsText,
     ContextCutText, ContextBlankText, CapitalIDotText}

Texts == ScenarioTexts \cup UNION {FragTexts(n) : n \in 0..MaxFrags}

\* Detection records handed to validate_adverse_events by a caller other
\* than the handler: confidences at, just above (0.1 + 0.2) and around the
\* threshold, a record without confidence, one without event name.
EventPool ==
    {[event |-> "burn",   confidence |-> F_0_3],
     [event |-> "burn",   confidence |-> Float(3, 32)],
     [event |-> "burn",   confidence |-> F_0_7, severity |-> "severe"],
     [event |-> "injury", confidence |-> Float(4, -24)],
     [event |-> "injury", severity |-> "mild"],
     [confidence |-> F_1_0]}

RECURSIVE EventLists(_)
EventLists(n) ==
    IF n = 0 THEN {<<>>}
    ELSE {Append(l, e) : l \in EventLists(n - 1), e \in EventPool}

ArgumentLists == UNION {EventLists(n) : n \in 0..MaxEvents}

---------------------------------------------------------------------------
(* The state machine: one call.  Either the pipeline of the handler,       *)
(* detect_adverse_events(text) and then validate_adverse_events on its     *)
(* result, or validate_adverse_events called on a list of its own.         *)

\* No handler is running.
NoRequest ==
    /\ request = <<>>
    /\ insights = <<>>
    /\ response = <<>>
    /\ trace = <<>>
    /\ frame = <<>>

Init ==
    /\ detected_events = <<>>
    /\ unique_events = <<>>
    /\ lexicon = SAFETY_CONCERNS
    /\ calls = <<>>
    /\ NoRequest
    /\ \/ /\ pc = "detect"
          /\ text \in Texts
          /\ events = <<>>
       \/ /\ pc = "validate"
          /\ text = ""
          /\ events \in ArgumentLists

\* safety_events = detect_adverse_events(customer_text); a raised exception
\* ends the call at pc = "error".
Detect ==
    /\ pc = "detect"
    /\ IF detect_raises(text)
       THEN pc' = "error" /\ UNCHANGED detected_events
       ELSE /\ detected_events' = detect_adverse_events(text)
            /\ pc' = "detected"
    /\ UNCHANGED <<text, events, unique_events, lexicon, calls,
                   request, insights, response, trace, frame>>

\* validated_events = validate_adverse_events(safety_events)
ValidateDetected ==
    /\ pc = "detected"
    /\ events' = detected_events
    /\ IF validate_raises(detected_events)
       THEN pc' = "error" /\ UNCHANGED unique_events
       ELSE /\ unique_events' = validate_adverse_events(detected_events)
            /\ pc' = "validated"
    /\ UNCHANGED <<text, detected_events, lexicon, calls,
                   request, insights, response, trace, frame>>

\* validate_adverse_events(events), called on a list of its own.
Validate ==
    /\ pc = "validate"
    /\ IF validate_raises(events)
       THEN pc' = "error" /\ UNCHANGED unique_events
       ELSE /\ unique_events' = validate_adverse_events(events)
            /\ pc' = "validated"
    /\ UNCHANGED <<text, detected_events, events, lexicon, calls,
                   request, insights, response, trace, frame>>

Next == Detect \/ ValidateDetected \/ Validate

Spec == Init /\ [][Next]_vars

---------------------------------------------------------------------------
(* Concurrent calls. The two functions are called from several threads    *)
(* (invocations of the handler); a thread may be preempted between any    *)
(* two iterations of a loop. lexicon is the module-level dict             *)
(* SAFETY_CONCERNS, the one object the calls share; calls[c] holds the    *)
(* argument and the local variables of call c.                            *)

ConcurrentTexts == {"no burn", "hot rash "}

ConcurrentLists ==
    {<<[event |-> "burn", confidence |-> F_0_7, severity |-> "severe"],
       [event |-> "burn", confidence |-> Float(3, 32)]>>,
     <<[event |-> "injury", severity |-> "mild"], [confidence |-> F_1_0]>>}

\* The frame of a call of detect_adverse_events(txt) at its first loop.
detect_frame(txt) ==
    [fn |-> "detect", arg |-> txt, text_lower |-> Lower(txt),
     pc |-> "for_category", i |-> 1, detected_events |-> <<>>, result |-> <<>>]

\* The frame of a call of validate_adverse_events(evs) at its first loop.
validate_frame(evs) ==
    [fn |-> "validate", arg |-> evs, pc |-> "filter", i |-> 1,
     validated_events |-> <<>>, seen_events |-> {}, unique_events |-> <<>>,
     result |-> <<>>]

Frames ==
    {detect_frame(txt) : txt \in ConcurrentTexts}
        \cup {validate_frame(evs) : evs \in ConcurrentLists}

InitConcurrent ==
    /\ text = ""
    /\ pc = "concurrent"
    /\ detected_events = <<>>
    /\ events = <<>>
    /\ unique_events = <<>>
    /\ lexicon = SAFETY_CONCERNS
    /\ calls \in [CallIds -> Frames]
    /\ NoRequest

\* Mutant of DetectCategory: detected_events is one module-level list, so
\* a detection is appended to the list every call of the detector uses.
DetectCategory_shared_list(c) ==
    /\ pc = "concurrent"
    /\ calls[c].fn = "detect"
    /\ calls[c].pc = "for_category"
    /\ LET f == calls[c]
           found == IF f.i > Len(lexicon) THEN <<>>
                    ELSE keyword_loop(f.arg, f.text_lower, lexicon[f.i].name,
                                      lexicon[f.i], 1)
       IN  calls' =
               [d \in CallIds |->
                   LET g == IF calls[d].fn = "detect"
                            THEN [calls[d] EXCEPT !.detected_events = @ \o found,
                                                  !.result = IF calls[d].pc = "returned"
                                                             THEN @ \o found ELSE @]
                            ELSE calls[d]
                   IN  IF d # c THEN g
                       ELSE IF f.i > Len(lexicon)
                            THEN [g EXCEPT !.pc = "returned",
                                           !.result = g.detected_events]
                            ELSE [g EXCEPT !.i = @ + 1]]
    /\ UNCHANGED <<text, pc, detected_events, events, unique_events, lexicon,
                   request, insights, response, trace, frame>>

\* One iteration of  for event_type, event_data in SAFETY_CONCERNS.items()
\* in call c, or the return after the last one.
DetectCategory(c) ==
    /\ pc = "concurrent"
    /\ calls[c].fn = "detect"
    /\ calls[c].pc = "for_category"
    /\ LET f == calls[c]
       IN  calls' =
               [calls EXCEPT ![c] =
                   IF f.i > Len(lexicon)
                   THEN [f EXCEPT !.pc = "returned", !.result = f.detected_events]
                   ELSE [f EXCEPT !.detected_events =
                                      @ \o keyword_loop(f.arg, f.text_lower,
                                                        lexicon[f.i].name,
                                                        lexicon[f.i], 1),
                                  !.i = @ + 1]]
    /\ UNCHANGED <<text, pc, detected_events, events, unique_events, lexicon,
                   request, insights, response, trace, frame>>

\* One iteration of the first loop of validate_adverse_events in call c,
\* or the passage to the second loop.
ValidateFilter(c) ==
    /\ pc = "concurrent"
    /\ calls[c].fn = "validate"
    /\ calls[c].pc = "filter"
    /\ LET f == calls[c]
       IN  calls' =
               [calls EXCEPT ![c] =
                   IF f.i > Len(f.arg)
                   THEN [f EXCEPT !.pc = "dedup", !.i = 1]
                   ELSE [f EXCEPT !.validated_events =
                                      IF FloatLess(F_0_3, Get(f.arg[f.i], "confidence", F_0_0))
                                      THEN Append(@, f.arg[f.i]) ELSE @,
                                  !.i = @ + 1]]
    /\ UNCHANGED <<text, pc, detected_events, events, unique_events, lexicon,
                   request, insights, response, trace, frame>>

\* One iteration of the second loop of validate_adverse_events in call c,
\* or the return after the last one.
ValidateDedup(c) ==
    /\ pc = "concurrent"
    /\ calls[c].fn = "validate"
    /\ calls[c].pc = "dedup"
    /\ LET f == calls[c]
           event_name == GetOrNone(f.validated_events[f.i], "event")
       IN  calls' =
               [calls EXCEPT ![c] =
                   IF f.i > Len(f.validated_events)
                   THEN [f EXCEPT !.pc = "returned", !.result = f.unique_events]
                   ELSE IF event_name \notin f.seen_events
                   THEN [f EXCEPT !.unique_events = Append(@, f.validated_events[f.i]),
                                  !.seen_events = @ \cup {event_name},
                                  !.i = @ + 1]
                   ELSE [f EXCEPT !.i = @ + 1]]
    /\ UNCHANGED <<text, pc, detected_events, events, unique_events, lexicon,
                   request, insights, response, trace, frame>>

NextConcurrent ==
    \E c \in CallIds : DetectCategory(c) \/ ValidateFilter(c) \/ ValidateDedup(c)

Concurrent == InitConcurrent /\ [][NextConcurrent]_vars

---------------------------------------------------------------------------
(* The insights handler (genai_insights.py). A JSON text is written as    *)
(* what json.loads makes of it: [parses |-> FALSE] when it raises, and    *)
(* [parses |-> TRUE, value |-> v] when it returns v. A JSON value v has a *)
(* type; an object carries its fields (a record, <<>> when it has none),  *)
(* a string its characters.                                               *)

\* The longest processing time, in ms, the clock is taken to measure.
MaxMillis == 1

JsonNull == [type |-> "null"]
JsonNumber == [type |-> "number"]
JsonArray == [type |-> "array"]
JsonString(s) == [type |-> "string", str |-> s]
JsonObject(fields) == [type |-> "object", fields |-> fields]

InvalidJson == [parses |-> FALSE]
JsonText(v) == [parses |-> TRUE, value |-> v]

\* json.dumps(v), for the values the handler serialises (dicts of strings,
\* numbers and lists).
json_dumps(v) == JsonText(v)

\* json.loads(s) raises TypeError when s is None and JSONDecodeError when s
\* is no JSON text.
json_loads_raises(s) == s = None \/ ~s.val.parses

json_loads(s) == s.val.value

\* event.get('body', '{}')
event_body(event) == Get(event, "body", Some(JsonText(JsonObject(<<>>))))

\* body.get('text', ''): AttributeError when body is no dict.
body_get_raises(body) == body.type # "object"

body_text(body) == Get(body.fields, "text", JsonString(""))

\* text.strip(): AttributeError when text is no str.
strip_raises(txt) == txt.type # "string"

\* The texts a request carries.
RequestTexts ==
    {"", "  ", " \t\n", "all good", " no burn ", "hot rash ", "small Cut shock",
     HotDeviceText}

TextValues == {JsonNull, JsonNumber} \cup {JsonString(s) : s \in RequestTexts}

Bodies ==
    {None, Some(InvalidJson), Some(JsonText(JsonArray)),
     Some(JsonText(JsonObject(<<>>))),
     Some(JsonText(JsonObject([source |-> JsonString("survey")])))}
        \cup {Some(JsonText(JsonObject([text |-> t]))) : t \in TextValues}

\* The events the handler is invoked with: without a body key, or with one.
Events == {<<>>} \cup {[body |-> b] : b \in Bodies}

\* What the call of Bedrock comes to: boto3.client raises, invoke_model
\* raises, the response is not the expected envelope, or Claude's reply is
\* the text claude_response.
ModelReplies ==
    {InvalidJson, JsonText(JsonArray), JsonText(JsonObject(<<>>)),
     JsonText(JsonObject([sentiment_score |-> Float(-5, 0),
                          sentiment_label |-> "negative",
                          language_detected |-> "english",
                          unmet_needs |-> <<"cooler device">>,
                          pain_points |-> <<"overheating">>,
                          positive_aspects |-> <<>>,
                          recommendations |-> <<"review thermal design">>,
                          adverse_events |-> <<"overheating">>,
                          confidence |-> Float(9, 16)]))}

BedrockOutcomes ==
    {[stage |-> "client"], [stage |-> "invoke_model"], [stage |-> "envelope"]}
        \cup {[stage |-> "reply", claude_response |-> Some(r)] : r \in ModelReplies}

\* The dict process_with_bedrock returns from its except block.
fallback ==
    JsonObject([sentiment_score |-> F_0_0,
                sentiment_label |-> "neutral",
                language_detected |-> "english",
                unmet_needs |-> <<>>,
                pain_points |-> <<>>,
                positive_aspects |-> <<>>,
                adverse_events |-> <<>>,
                recommendations |-> <<"Unable to process with GenAI - using fallback">>,
                confidence |-> F_0_0])

\* Mutant of process_with_bedrock: no try block, the exception leaves the
\* function (written as the value raised).
process_with_bedrock_no_try(outcome) ==
    IF outcome.stage # "reply" \/ json_loads_raises(outcome.claude_response)
    THEN [type |-> "raised"]
    ELSE json_loads(outcome.claude_response)

\* process_with_bedrock: the parsed reply, the fallback on any exception.
process_with_bedrock(outcome) ==
    IF outcome.stage # "reply" \/ json_loads_raises(outcome.claude_response)
    THEN fallback
    ELSE json_loads(outcome.claude_response)

\* d[key] = v
SetItem(d, key, v) ==
    [k \in DOMAIN d \cup {key} |-> IF k = key THEN v ELSE d[k]]

\* [event['event'] for event in validated_events]
event_names(validated_events) ==
    [i \in 1..Len(validated_events) |-> validated_events[i].event]

\* Lines 64-65: item assignment on, and .get of, anything but a dict raise.
merge_raises(ins) == ins.type # "object"

\* Mutant of merge: the local event names are appended to the list the
\* model returned instead of replacing it.
merge_extend(ins, validated_events) ==
    IF validated_events # <<>>
    THEN SetItem(ins.fields, "adverse_events",
                 Get(ins.fields, "adverse_events", <<>>)
                     \o [i \in 1..Len(validated_events) |-> validated_events[i].event])
    ELSE ins.fields

merge(ins, validated_events) ==
    IF validated_events # <<>>
    THEN SetItem(ins.fields, "adverse_events", event_names(validated_events))
    ELSE ins.fields

headers ==
    ("Content-Type" :> "application/json") @@ ("Access-Control-Allow-Origin" :> "*")

\* The response of lines 89-96.
response_200(merged, validated_events, processing_time) ==
    [statusCode |-> 200,
     headers |-> headers,
     body |-> json_dumps(JsonObject(
         [sentiment_score |-> Get(merged, "sentiment_score", F_0_0),
          sentiment_label |-> Get(merged, "sentiment_label", "neutral"),
          language_detected |-> Get(merged, "language_detected", "english"),
          insights |-> [unmet_needs |-> Get(merged, "unmet_needs", <<>>),
                        pain_points |-> Get(merged, "pain_points", <<>>),
                        positive_aspects |-> Get(merged, "positive_aspects", <<>>)],
          recommendations |-> Get(merged, "recommendations", <<>>),
          adverse_events |-> Get(merged, "adverse_events", <<>>),
          safety_concerns |-> validated_events,
          processing_time_ms |-> processing_time,
          confidence |-> Get(merged, "confidence", F_0_0),
          model |-> "claude-3-haiku",
          status |-> "success"]))]

\* The response of lines 41-51.
response_400 ==
    [statusCode |-> 400,
     headers |-> headers,
     body |-> json_dumps(JsonObject([error |-> "Text field is required",
                                     status |-> "error"]))]

\* The response of the except block, lines 100-111; message is the
\* exception raised.
response_500(message) ==
    [statusCode |-> 500,
     headers |-> headers,
     body |-> json_dumps(JsonObject([error |-> "Internal server error",
                                     message |-> message,
                                     status |-> "error"]))]

InitInsights ==
    /\ pc = "handler"
    /\ request \in Events
    /\ text = ""
    /\ detected_events = <<>>
    /\ events = <<>>
    /\ unique_events = <<>>
    /\ lexicon = SAFETY_CONCERNS
    /\ calls = <<>>
    /\ insights = <<>>
    /\ response = <<>>
    /\ trace = <<>>
    /\ frame = <<>>

\* return resp
Return(resp) == response' = resp /\ pc' = "returned"

\* Mutant of ParseRequest: the text is not checked, every parsed request
\* goes on to the detector.
ParseRequest_unchecked ==
    /\ pc = "handler"
    /\ LET raw == event_body(request)
       IN  IF json_loads_raises(raw)
           THEN Return(response_500("json.loads")) /\ UNCHANGED text
           ELSE IF body_get_raises(json_loads(raw))
           THEN Return(response_500("body.get")) /\ UNCHANGED text
           ELSE IF strip_raises(body_text(json_loads(raw)))
           THEN Return(response_500("text.strip")) /\ UNCHANGED text
           ELSE /\ text' = Strip(body_text(json_loads(raw)).str)
                /\ pc' = "detect_local"
                /\ UNCHANGED response
    /\ UNCHANGED <<detected_events, events, unique_events, lexicon, calls,
                   request, insights, trace, frame>>

\* Lines 30-54: the body is parsed, the text read and checked.
ParseRequest ==
    /\ pc = "handler"
    /\ LET raw == event_body(request)
       IN  IF json_loads_raises(raw)
           THEN Return(response_500("json.loads")) /\ UNCHANGED text
           ELSE IF body_get_raises(json_loads(raw))
           THEN Return(response_500("body.get")) /\ UNCHANGED text
           ELSE IF strip_raises(body_text(json_loads(raw)))
           THEN Return(response_500("text.strip")) /\ UNCHANGED text
           ELSE IF Strip(body_text(json_loads(raw)).str) = ""
           THEN Return(response_400) /\ UNCHANGED text
           ELSE /\ text' = Strip(body_text(json_loads(raw)).str)
                /\ pc' = "detect_local"
                /\ UNCHANGED response
    /\ UNCHANGED <<detected_events, events, unique_events, lexicon, calls,
                   request, insights, trace, frame>>

\* Lines 57-58: the local detection and its validation.
DetectLocal ==
    /\ pc = "detect_local"
    /\ trace' = trace \o <<[call |-> "detect_adverse_events"],
                           [call |-> "validate_adverse_events"]>>
    /\ IF detect_raises(text)
       THEN /\ Return(response_500("detect_adverse_events"))
            /\ UNCHANGED <<detected_events, events, unique_events>>
       ELSE /\ detected_events' = detect_adverse_events(text)
            /\ events' = detected_events'
            /\ IF validate_raises(detected_events')
               THEN /\ Return(response_500("validate_adverse_events"))
                    /\ UNCHANGED unique_events
               ELSE /\ unique_events' = validate_adverse_events(detected_events')
                    /\ pc' = "bedrock"
                    /\ UNCHANGED response
    /\ UNCHANGED <<text, lexicon, calls, request, insights, frame>>

\* Line 61: process_with_bedrock, with whatever Bedrock comes to.
ProcessWithBedrock ==
    /\ pc = "bedrock"
    /\ \E outcome \in BedrockOutcomes :
          /\ insights' = process_with_bedrock(outcome)
          /\ trace' = Append(trace, [call |-> "process_with_bedrock",
                                     outcome |-> outcome])
    /\ pc' = "respond"
    /\ UNCHANGED <<text, detected_events, events, unique_events, lexicon, calls,
                   request, response, frame>>

\* Mutant of BuildResponse: the merge and the response stand after the try
\* block, so an exception in them leaves the handler.
BuildResponse_outside_try ==
    /\ pc = "respond"
    /\ IF merge_raises(insights)
       THEN pc' = "raised" /\ UNCHANGED <<insights, response>>
       ELSE /\ insights' = JsonObject(merge(insights, unique_events))
            /\ \E processing_time \in 0..MaxMillis :
                  Return(response_200(merge(insights, unique_events),
                                      unique_events, processing_time))
    /\ UNCHANGED <<text, detected_events, events, unique_events, lexicon, calls,
                   request, trace, frame>>

\* Lines 64-96: the merge and the response; an exception in them goes to
\* the except block of line 98.
BuildResponse ==
    /\ pc = "respond"
    /\ IF merge_raises(insights)
       THEN Return(response_500("insights")) /\ UNCHANGED insights
       ELSE /\ insights' = JsonObject(merge(insights, unique_events))
            /\ \E processing_time \in 0..MaxMillis :
                  Return(response_200(merge(insights, unique_events),
                                      unique_events, processing_time))
    /\ UNCHANGED <<text, detected_events, events, unique_events, lexicon, calls,
                   request, trace, frame>>

NextInsights == ParseRequest \/ DetectLocal \/ ProcessWithBedrock \/ BuildResponse

Insights == InitInsights /\ [][NextInsights]_vars

---------------------------------------------------------------------------
(* The SageMaker proxy handler (sagemaker_proxy.py). frame holds its local *)
(* variables; a number carries the text str() gives it.                    *)

JsonNum(repr) == [type |-> "number", repr |-> repr]
JsonList(items) == [type |-> "array", items |-> items]

\* The empty string, which json.loads does not parse.
EmptyText == [parses |-> FALSE, empty |-> TRUE]

\* bool(v) is False: None, 0, an empty list.
Falsy(v) ==
    \/ v.type = "null"
    \/ v.type = "number" /\ v.repr \in {"0", "0.0"}
    \/ v.type = "array" /\ v.items = <<>>

\* `event.get('body')` is falsy: no body, None or ''.
no_body(event) ==
    Get(event, "body", None) = None \/ event.body.val = EmptyText

\* len(v): TypeError for a number.
len_raises(v) == v.type # "array"

\* writer.writerow(row): csv.Error when row is not iterable.
writerow_raises(row) == row.type # "array"

\* The line csv.writer writes for row.
RECURSIVE joined(_)
joined(items) ==
    IF items = <<>> THEN ""
    ELSE IF Len(items) = 1 THEN Head(items).repr
    ELSE Head(items).repr \o "," \o joined(Tail(items))

RECURSIVE csv_lines(_)
csv_lines(rows) ==
    IF rows = <<>> THEN ""
    ELSE joined(Head(rows).items) \o "\r\n" \o csv_lines(Tail(rows))

\* csv_buffer.getvalue().strip()
csv_data(features) == Strip(csv_lines(features.items))

\* Mutant of find_kmeans: the loop has no break, the last matching endpoint
\* is kept.
find_kmeans_no_break(endpoints) ==
    LET hits == {i \in 1..Len(endpoints) : Contains(Lower(endpoints[i]), "kmeans")}
    IN  IF hits = {} THEN None
        ELSE Some(endpoints[CHOOSE i \in hits : \A j \in hits : j <= i])

\* Lines 37-42: the name of the first endpoint with 'kmeans' in its lowered
\* name, None when there is none.
RECURSIVE find_kmeans(_)
find_kmeans(endpoints) ==
    IF endpoints = <<>> THEN None
    ELSE IF Contains(Lower(Head(endpoints)), "kmeans") THEN Some(Head(endpoints))
    ELSE find_kmeans(Tail(endpoints))

proxy_response(statusCode, body) ==
    [statusCode |-> statusCode,
     headers |-> ("Content-Type" :> "application/json"),
     body |-> json_dumps(JsonObject(body))]

Row1 == JsonList(<<JsonNum("-1.14"), JsonNum("-1.13"), JsonNum("0.68")>>)
Row2 == JsonList(<<JsonNum("-1.67"), JsonNum("-0.81"), JsonNum("-0.22")>>)

missing_features ==
    [error |-> "Missing features array",
     example |-> [features |-> <<Row1, Row2>>]]

FeatureValues ==
    {JsonNull, JsonNum("0"), JsonNum("5"), JsonList(<<>>),
     JsonList(<<Row1>>), JsonList(<<Row1, Row2>>), JsonList(<<Row2, JsonList(<<>>)>>),
     JsonList(<<JsonNum("1.5")>>), JsonList(<<Row1, JsonNull>>)}

ProxyBodies ==
    {None, Some(EmptyText), Some(InvalidJson), Some(JsonText(JsonList(<<>>))),
     Some(JsonText(JsonObject(<<>>)))}
        \cup {Some(JsonText(JsonObject([features |-> f]))) : f \in FeatureValues}

ProxyEvents == {<<>>} \cup {[body |-> b] : b \in ProxyBodies}

EndpointLists ==
    {<<>>, <<"churn-xgb">>, <<"kmeans-dev">>,
     <<"churn-xgb", "Customer-KMeans-2024", "kmeans-dev">>,
     <<"KMEANS", "kmeans-dev">>}

\* What list_endpoints comes to.
ListOutcomes ==
    {[stage |-> "client"], [stage |-> "list_endpoints", raises |-> TRUE]}
        \cup {[stage |-> "list_endpoints", raises |-> FALSE, Endpoints |-> e] :
                 e \in EndpointLists}

\* What invoke_endpoint comes to: it raises, or its Body reads as a text.
InvokeOutcomes ==
    {[raises |-> TRUE]}
        \cup {[raises |-> FALSE, Body |-> Some(b)] :
                 b \in {InvalidJson,
                        JsonText(JsonList(<<JsonNum("0"), JsonNum("1")>>)),
                        JsonText(JsonObject([predictions |-> <<"0", "1">>])),
                        JsonText(JsonObject([clusters |-> <<"0", "1">>]))}}

InitProxy ==
    /\ pc = "proxy"
    /\ request \in ProxyEvents
    /\ text = ""
    /\ detected_events = <<>>
    /\ events = <<>>
    /\ unique_events = <<>>
    /\ lexicon = SAFETY_CONCERNS
    /\ calls = <<>>
    /\ insights = <<>>
    /\ response = <<>>
    /\ trace = <<>>
    /\ frame = <<>>

\* The except block, lines 72-77.
Return500(message) == Return(proxy_response(500, [error |-> message]))

\* The variables the proxy handler does not touch.
core_vars == <<text, detected_events, events, unique_events, lexicon, calls, insights>>

\* Lines 9-22: the body is parsed and the features are read and checked.
ProxyParse ==
    /\ pc = "proxy"
    /\ IF ~no_body(request) /\ json_loads_raises(request.body)
       THEN Return500("json.loads") /\ UNCHANGED frame
       ELSE LET body == IF no_body(request) THEN JsonObject(<<>>)
                        ELSE json_loads(request.body)
            IN  IF body_get_raises(body)
                THEN Return500("body.get") /\ UNCHANGED frame
                ELSE LET features == Get(body.fields, "features", JsonList(<<>>))
                     IN  IF Falsy(features)
                         THEN /\ Return(proxy_response(400, missing_features))
                              /\ UNCHANGED frame
                         ELSE IF len_raises(features)
                         THEN Return500("len") /\ UNCHANGED frame
                         ELSE /\ frame' = [features |-> features]
                              /\ pc' = "convert_csv"
                              /\ UNCHANGED response
    /\ UNCHANGED <<core_vars, request, trace>>

\* Lines 25-29: the rows are written as CSV.
ConvertCsv ==
    /\ pc = "convert_csv"
    /\ IF \E i \in 1..Len(frame.features.items) :
              writerow_raises(frame.features.items[i])
       THEN Return500("writerow") /\ UNCHANGED frame
       ELSE /\ frame' = [features |-> frame.features,
                         csv_data |-> csv_data(frame.features)]
            /\ pc' = "list_endpoints"
            /\ UNCHANGED response
    /\ UNCHANGED <<core_vars, request, trace>>

\* Lines 32-36: the two clients are made and the endpoints are listed.
ListEndpoints ==
    /\ pc = "list_endpoints"
    /\ \E outcome \in ListOutcomes :
          IF outcome.stage = "client"
          THEN /\ trace' = Append(trace, [call |-> "boto3.client",
                                          outcome |-> outcome])
               /\ Return500("boto3.client")
               /\ UNCHANGED frame
          ELSE /\ trace' = Append(trace, [call |-> "list_endpoints",
                                          outcome |-> outcome])
               /\ IF outcome.raises
                  THEN Return500("list_endpoints") /\ UNCHANGED frame
                  ELSE /\ frame' = [features |-> frame.features,
                                    csv_data |-> frame.csv_data,
                                    endpoints |-> outcome.Endpoints]
                       /\ pc' = "find_endpoint"
                       /\ UNCHANGED response
    /\ UNCHANGED <<core_vars, request>>

\* Lines 37-49: the kmeans endpoint is looked for.
FindEndpoint ==
    /\ pc = "find_endpoint"
    /\ IF find_kmeans(frame.endpoints) = None
       THEN /\ Return(proxy_response(404, [error |-> "No K-means endpoint found"]))
            /\ UNCHANGED frame
       ELSE /\ frame' = [features |-> frame.features,
                         csv_data |-> frame.csv_data,
                         endpoints |-> frame.endpoints,
                         kmeans_endpoint |-> find_kmeans(frame.endpoints).val]
            /\ pc' = "invoke_endpoint"
            /\ UNCHANGED response
    /\ UNCHANGED <<core_vars, request, trace>>

\* Lines 51-70: the endpoint is invoked and its result returned.
InvokeEndpoint ==
    /\ pc = "invoke_endpoint"
    /\ \E outcome \in InvokeOutcomes :
          /\ trace' = Append(trace, [call |-> "invoke_endpoint",
                                     EndpointName |-> frame.kmeans_endpoint,
                                     Body |-> frame.csv_data,
                                     outcome |-> outcome])
          /\ IF outcome.raises
             THEN Return500("invoke_endpoint")
             ELSE IF json_loads_raises(outcome.Body)
             THEN Return500("json.loads")
             ELSE IF json_loads(outcome.Body).type # "object"
             THEN Return500("result.get")
             ELSE Return(proxy_response(200,
                      [predictions |-> Get(json_loads(outcome.Body).fields,
                                           "predictions",
                                           json_loads(outcome.Body).fields),
                       endpoint |-> frame.kmeans_endpoint,
                       model |-> "K-means Customer Segmentation",
                       features_processed |-> Len(frame.features.items)]))
    /\ UNCHANGED <<core_vars, request, frame>>

NextProxy ==
    ProxyParse \/ ConvertCsv \/ ListEndpoints \/ FindEndpoint \/ InvokeEndpoint

Proxy == InitProxy /\ [][NextProxy]_vars

---------------------------------------------------------------------------
(* Vocabulary of the properties.                                           *)

Categories == 1..Len(SAFETY_CONCERNS)

\* The event name detect_adverse_events gives category ci.
EventName(ci) == ReplaceUnderscore(SAFETY_CONCERNS[ci].name)

\* Keyword k of category ci occurs in the lowered text low.
KeywordOccurs(ci, k, low) == Contains(low, SAFETY_CONCERNS[ci].keywords[k])

\* The categories one of whose keywords occurs in the lowered text low.
Triggered(low) ==
    {ci \in Categories :
        \E k \in 1..Len(SAFETY_CONCERNS[ci].keywords) : KeywordOccurs(ci, k, low)}

\* The first keyword of category ci, in declaration order, that occurs in
\* the lowered text low.
FirstKeyword(ci, low) ==
    SAFETY_CONCERNS[ci].keywords[
        CHOOSE k \in 1..Len(SAFETY_CONCERNS[ci].keywords) :
            /\ KeywordOccurs(ci, k, low)
            /\ \A j \in 1..(k - 1) : ~KeywordOccurs(ci, j, low)]

\* The detections of evs that carry the event name of category ci.
Of(evs, ci) == {i \in 1..Len(evs) : evs[i].event = EventName(ci)}

Burn == CHOOSE ci \in Categories : SAFETY_CONCERNS[ci].name = "burn"
Injury == CHOOSE ci \in Categories : SAFETY_CONCERNS[ci].name = "injury"

\* The float literal 0.4.
F_0_4 == Float(4, 16)

---------------------------------------------------------------------------
(* Properties.                                                             *)

\* C1: a text in which no trigger keyword of any category occurs as a
\* case-insensitive substring (the empty and the blank text included) has
\* no detection.
C1_NoKeywordNoDetection ==
    (pc = "detected" /\ Triggered(Lower(text)) = {}) => detected_events = <<>>

\* A text with a negation word and a severity indicator, but no keyword.
C1_Witness ==
    pc = "detected" /\ text = "no severe  " /\ Triggered(Lower(text)) = {}

\* C2: at most one detection per category (so at most six, with distinct
\* event names), and the detection of a category is the one built from the
\* first keyword, in declaration order, that occurs in the lowered text.
C2_OnePerCategoryFirstKeyword ==
    pc = "detected" =>
        /\ Len(detected_events) <= Len(SAFETY_CONCERNS)
        /\ \A i, j \in 1..Len(detected_events) :
              detected_events[i].event = detected_events[j].event => i = j
        /\ \A ci \in Categories : Cardinality(Of(detected_events, ci)) <= 1
        /\ LET low == Lower(text)
           IN  \A i \in 1..Len(detected_events) :
                   \E ci \in Triggered(low) :
                       detected_events[i] =
                           detection(text, low, SAFETY_CONCERNS[ci].name,
                                     SAFETY_CONCERNS[ci], FirstKeyword(ci, low))

\* "hot" comes first in the text and "burn" first in the declaration: the
\* penalty of the "no" before "burn" shows which keyword was used.
C2_Witness ==
    /\ pc = "detected"
    /\ text = "hot no burn"
    /\ Len(detected_events) = 1
    /\ detected_events[1].confidence = Float(5, -40)

\* C3: every detection has a severity among mild, moderate and severe.
C3_SeverityDocumented ==
    pc = "detected" =>
        \A i \in 1..Len(detected_events) :
            detected_events[i].severity \in {"mild", "moderate", "severe"}

\* C4: every detection has a confidence c with 0.1 <= c <= 1.0.
C4_ConfidenceRange ==
    pc = "detected" =>
        \A i \in 1..Len(detected_events) :
            /\ FloatLeq(F_0_1, detected_events[i].confidence)
            /\ FloatLeq(detected_events[i].confidence, F_1_0)

\* A negated keyword without boost: the lowest confidence, 0.7 - 0.3.
C4_Witness ==
    /\ pc = "detected"
    /\ \E i \in 1..Len(detected_events) :
          detected_events[i].confidence = FloatSub(F_0_7, F_0_3)

\* C5, as stated: the hot-device text has a burn detection of severity
\* moderate or severe and confidence at least 0.7.
C5_HotDeviceModerateOrSevere ==
    (pc = "detected" /\ text = HotDeviceText) =>
        \E i \in Of(detected_events, Burn) :
            /\ detected_events[i].severity \in {"moderate", "severe"}
            /\ FloatLeq(F_0_7, detected_events[i].confidence)

\* C5, amended: the hot-device text has a burn detection of severity mild
\* and confidence at least 0.7.
C5_HotDeviceMild ==
    (pc = "detected" /\ text = HotDeviceText) =>
        \E i \in Of(detected_events, Burn) :
            /\ detected_events[i].severity = "mild"
            /\ FloatLeq(F_0_7, detected_events[i].confidence)

C5_Witness ==
    pc = "detected" /\ text = HotDeviceText /\ Of(detected_events, Burn) # {}

\* C6: the burn detection of "no burns were found" has a confidence
\* strictly below that of the burn detection of "severe burns were found",
\* and not below 0.1.  Each of the two calls is compared with the result
\* of the other text.
C6_NegationLowersConfidence ==
    /\ (pc = "detected" /\ text = NoBurnsText) =>
          /\ Of(detected_events, Burn) # {}
          /\ \A i \in Of(detected_events, Burn) :
                /\ FloatLeq(F_0_1, detected_events[i].confidence)
                /\ LET severe == detect_adverse_events(SevereBurnsText)
                   IN  /\ Of(severe, Burn) # {}
                       /\ \A j \in Of(severe, Burn) :
                             FloatLess(detected_events[i].confidence,
                                       severe[j].confidence)
    /\ (pc = "detected" /\ text = SevereBurnsText) =>
          /\ Of(detected_events, Burn) # {}
          /\ \A j \in Of(detected_events, Burn) :
                LET no == detect_adverse_events(NoBurnsText)
                IN  \A i \in Of(no, Burn) :
                        FloatLess(no[i].confidence, detected_events[j].confidence)

C6_Witness ==
    /\ pc = "detected"
    /\ text = NoBurnsText
    /\ \E i \in Of(detected_events, Burn) :
          detected_events[i].confidence = FloatSub(F_0_7, F_0_3)

\* C7: the everything-is-fine text has no detection, or its detections of
\* the injury and burn categories have a confidence of at most 0.4.
C7_EverythingFineLowConfidence ==
    (pc = "detected" /\ text = EverythingFineText) =>
        \/ detected_events = <<>>
        \/ \A i \in Of(detected_events, Injury) \cup Of(detected_events, Burn) :
               FloatLeq(detected_events[i].confidence, F_0_4)

\* The negated "burns" is detected ("injuries" holds no injury keyword).
C7_Witness ==
    /\ pc = "detected"
    /\ text = EverythingFineText
    /\ Of(detected_events, Burn) # {}
    /\ Of(detected_events, Injury) = {}

C9_FilterThreshold ==
    pc = "validated" =>
        \A i \in 1..Len(unique_events) :
            /\ \E j \in 1..Len(events) : events[j] = unique_events[i]
            /\ "confidence" \in DOMAIN unique_events[i]
            /\ FloatLess(F_0_3, unique_events[i].confidence)

\* An argument with a confidence of exactly 0.3, one without confidence
\* and one that is retained.
C9_Witness ==
    /\ pc = "validated"
    /\ \E j \in 1..Len(events) :
          "confidence" \in DOMAIN events[j] /\ events[j].confidence = F_0_3
    /\ \E j \in 1..Len(events) : "confidence" \notin DOMAIN events[j]
    /\ Len(unique_events) = 1

\* C10: no two entries of the list validate_adverse_events returns have
\* the same event name.
C10_UniqueEventNames ==
    pc = "validated" =>
        \A i, j \in 1..Len(unique_events) :
            GetOrNone(unique_events[i], "event") = GetOrNone(unique_events[j], "event")
                => i = j

\* Two different detections of one name pass the filter, and one is dropped.
C10_Witness ==
    /\ pc = "validated"
    /\ Len(unique_events) = 2
    /\ \E i, j \in 1..Len(events) :
          /\ i < j
          /\ events[i] # events[j]
          /\ events[i] = unique_events[1]
          /\ GetOrNone(events[i], "event") = GetOrNone(events[j], "event")
          /\ FloatLess(F_0_3, Get(events[j], "confidence", F_0_0))

\* The confidence validate_adverse_events reads from an event.
ConfidenceOf(event) == Get(event, "confidence", F_0_0)

\* The positions of evs that validate_adverse_events is to keep: those
\* with a confidence above 0.3 that no earlier such position shares its
\* event name with.
Survivors(evs) ==
    {i \in 1..Len(evs) :
        /\ FloatLess(F_0_3, ConfidenceOf(evs[i]))
        /\ \A j \in 1..(i - 1) :
              FloatLess(F_0_3, ConfidenceOf(evs[j]))
                  => GetOrNone(evs[j], "event") # GetOrNone(evs[i], "event")}

\* The k-th smallest element of the set of positions S.
Nth(S, k) == CHOOSE i \in S : Cardinality({j \in S : j <= i}) = k

\* C11: the list validate_adverse_events returns is the subsequence of its
\* argument, in argument order, of the first element of each event name
\* among the elements with a confidence above 0.3.
C11_FirstOfEachNameInOrder ==
    pc = "validated" =>
        /\ Len(unique_events) = Cardinality(Survivors(events))
        /\ \A k \in 1..Len(unique_events) :
              unique_events[k] = events[Nth(Survivors(events), k)]

\* Three events of which the first is filtered out and the third repeats
\* the name of the second.
C11_Witness ==
    /\ pc = "validated"
    /\ Len(events) = 3
    /\ Survivors(events) = {2}
    /\ FloatLess(F_0_3, ConfidenceOf(events[3]))
    /\ events[3] # events[2]

\* C12: validate_adverse_events is idempotent: applied to the list it
\* returned, it returns that list.
C12_ValidateIdempotent ==
    pc = "validated" => validate_adverse_events(unique_events) = unique_events

\* A call that dropped an event and kept two.
C12_Witness ==
    /\ pc = "validated"
    /\ Len(events) = 3
    /\ Len(unique_events) = 2
    /\ unique_events[1] = events[1]
    /\ unique_events[2] = events[3]

\* The position of the category with event name n, 0 when there is none.
CategoryOf(n) ==
    IF \E ci \in Categories : EventName(ci) = n
    THEN CHOOSE ci \in Categories : EventName(ci) = n
    ELSE 0

\* C13: the detections are listed in the declaration order of their
\* categories, wherever the keywords stand in the text.
C13_LexiconOrder ==
    pc = "detected" =>
        \A i, j \in 1..Len(detected_events) :
            i < j => CategoryOf(detected_events[i].event)
                        < CategoryOf(detected_events[j].event)

\* "hot" stands before "rash" in the text, burn after allergic_reaction in
\* the lexicon.
C13_Witness ==
    /\ pc = "detected"
    /\ text = "hot rash "
    /\ Len(detected_events) = 2
    /\ detected_events[1].event = "allergic reaction"
    /\ detected_events[2].event = "burn"

\* C14: detect_adverse_events and validate_adverse_events end in no
\* exception, and each returns a list.
C14_NoException ==
    /\ pc # "error"
    /\ pc \in {"detected", "validated"} =>
          DOMAIN detected_events = 1..Len(detected_events)
    /\ pc = "validated" => DOMAIN unique_events = 1..Len(unique_events)

\* A validated list with an event without confidence and an event without
\* name, the two keys the validator reads.
C14_Witness ==
    /\ pc = "validated"
    /\ Len(events) = 2
    /\ "confidence" \notin DOMAIN events[1]
    /\ "event" \notin DOMAIN events[2]

\* The float literal 0.5999999999999999, the result of 0.7 + 0.1 + 0.1 - 0.3.
F_0_6_below == Float(6, -96)

\* The keywords of category ci that occur in the lowered text low, each
\* keyword string counted for itself.
KeywordsPresent(ci, low) ==
    {k \in 1..Len(SAFETY_CONCERNS[ci].keywords) : KeywordOccurs(ci, k, low)}

\* The tiers of category ci one of whose indicators occurs in low.
TiersPresent(ci, low) ==
    {i \in 1..Len(SAFETY_CONCERNS[ci].severity_indicators) :
        \E j \in 1..Len(SAFETY_CONCERNS[ci].severity_indicators[i].indicators) :
            Contains(low, SAFETY_CONCERNS[ci].severity_indicators[i].indicators[j])}

\* 0.7 + a + b for category ci, in the floats of the source.
Boosted(ci, low) ==
    LET a == IF Cardinality(KeywordsPresent(ci, low)) > 1 THEN F_0_1 ELSE F_0_0
        b == IF TiersPresent(ci, low) # {} THEN F_0_1 ELSE F_0_0
    IN  FloatAdd(FloatAdd(F_0_7, a), b)

\* clamp(x, 0.1, 1.0)
Clamped(x) ==
    IF FloatLess(x, F_0_1) THEN F_0_1 ELSE IF FloatLess(F_1_0, x) THEN F_1_0 ELSE x

\* C16: the confidence of a detection is clamp(0.7 + a + b - n, 0.1, 1.0),
\* with a = 0.1 when more than one keyword of the category occurs, b = 0.1
\* when an indicator of any tier of the category occurs, n = 0.3 when the
\* negation condition holds, and each of the three applied at most once.
C16_ConfidenceFormula ==
    pc = "detected" =>
        LET low == Lower(text)
        IN  \A i \in 1..Len(detected_events) :
                LET ci == CategoryOf(detected_events[i].event)
                    n  == IF negation_found(low, FirstKeyword(ci, low))
                          THEN F_0_3 ELSE F_0_0
                IN  detected_events[i].confidence
                        = Clamped(FloatSub(Boosted(ci, low), n))

\* Two burn keywords, the indicator "severe" and the negation "never"
\* before the keyword: all three adjustments in one confidence.
C16_Witness ==
    /\ pc = "detected"
    /\ text = AllAdjustmentsText
    /\ Len(detected_events) = 1
    /\ detected_events[1].confidence = F_0_6_below

\* One of the negation words lies wholly inside the at most 20 characters
\* of low that end where position p (0-based) begins.
NegationInWindow(low, p) ==
    \E n \in 1..Len(negations) :
        \E s \in 0..p :
            /\ s >= p - 20
            /\ s + Len(negations[n]) <= p
            /\ Slice(low, s, s + Len(negations[n])) = negations[n]

\* C17: the confidence of a detection is lowered by the negation penalty
\* exactly when a negation word lies wholly inside the 20 characters before
\* the first occurrence of the matched keyword.
C17_NegationWindow ==
    pc = "detected" =>
        LET low == Lower(text)
        IN  \A i \in 1..Len(detected_events) :
                LET ci == CategoryOf(detected_events[i].event)
                    p  == Find(low, FirstKeyword(ci, low))
                IN  /\ detected_events[i].confidence
                           \in {Boosted(ci, low), FloatSub(Boosted(ci, low), F_0_3)}
                    /\ FloatLess(detected_events[i].confidence, Boosted(ci, low))
                           <=> NegationInWindow(low, p)

\* A negation that ends 19 characters before the keyword, so that only its
\* second letter is inside the window, and an unlowered confidence.
C17_Witness ==
    /\ pc = "detected"
    /\ text = NegationBeforeWindowText
    /\ Len(detected_events) = 1
    /\ detected_events[1].confidence = F_0_7

\* C18: the severity of a detection is the name of the first tier of its
\* category, in declaration order, one of whose indicators occurs in the
\* lowered text, and "mild" when no tier has one.
C18_FirstTierWins ==
    pc = "detected" =>
        LET low == Lower(text)
        IN  \A i \in 1..Len(detected_events) :
                LET ci    == CategoryOf(detected_events[i].event)
                    tiers == TiersPresent(ci, low)
                IN  detected_events[i].severity
                        = IF tiers = {} THEN "mild"
                          ELSE SAFETY_CONCERNS[ci].severity_indicators[
                                   CHOOSE t \in tiers : \A u \in tiers : t <= u].severity

\* "small" of the first tier and "severe" of the last tier of burn in one
\* text: the first tier wins.
C18_Witness ==
    /\ pc = "detected"
    /\ text = "small severe burn"
    /\ Len(detected_events) = 1
    /\ TiersPresent(Burn, Lower(text)) = {1, 3}
    /\ detected_events[1].severity
           = SAFETY_CONCERNS[Burn].severity_indicators[1].severity

\* The first position (0-based) of txt at which keyword stands when case is
\* ignored, -1 when there is none.
FirstOccurrence(txt, keyword) ==
    LET at(q) == Lower(Slice(txt, q, q + Len(keyword))) = keyword
        qs    == {q \in 0..Len(txt) : q + Len(keyword) <= Len(txt) /\ at(q)}
    IN  IF qs = {} THEN -1 ELSE CHOOSE q \in qs : \A r \in qs : q <= r

\* C19: detected_phrase is the text from max(0, p - 30) to
\* min(len(text), p + len(keyword) + 30), p the first occurrence of the
\* matched keyword with case ignored, trimmed of whitespace, with "..." in
\* front exactly when p > 30 and "..." behind exactly when
\* p + len(keyword) + 30 < len(text); and it contains the keyword, case
\* ignored.
C19_PhraseAroundKeyword ==
    pc = "detected" =>
        LET low == Lower(text)
        IN  \A i \in 1..Len(detected_events) :
                LET keyword == FirstKeyword(CategoryOf(detected_events[i].event), low)
                    p     == FirstOccurrence(text, keyword)
                    start == IF p - 30 > 0 THEN p - 30 ELSE 0
                    end   == IF p + Len(keyword) + 30 < Len(text)
                             THEN p + Len(keyword) + 30 ELSE Len(text)
                IN  /\ p >= 0
                    /\ detected_events[i].detected_phrase
                           = (IF p > 30 THEN "..." ELSE "")
                             \o Strip(Slice(text, start, end))
                             \o (IF p + Len(keyword) + 30 < Len(text)
                                 THEN "..." ELSE "")
                    /\ Contains(Lower(detected_events[i].detected_phrase), keyword)

\* The float literal 0.39999999999999997, the result of 0.7 - 0.3.
F_0_4_below == Float(4, -24)

\* C20: validate_adverse_events returns the list detect_adverse_events
\* produced unchanged: every detection has a confidence above 0.3, the
\* lowest one (0.7 - 0.3) included, and no two share an event name. (A call
\* of the validator on a list of its own, not the detector's, has text "".)
C20_DetectionsSurviveValidation ==
    (pc = "validated" /\ text # "") =>
        /\ events = detected_events
        /\ unique_events = detected_events

\* A single negated keyword without boost, and a second category beside it.
C20_Witness ==
    /\ pc = "validated"
    /\ text = "no burnrash "
    /\ Len(unique_events) = 2
    /\ unique_events[1].event = "allergic reaction"
    /\ unique_events[2].confidence = F_0_4_below

\* The result call frame f has when it runs alone.
AloneResult(f) ==
    IF f.fn = "detect" THEN detect_adverse_events(f.arg)
    ELSE validate_adverse_events(f.arg)

\* C15: concurrent calls do not interfere. No step of a call changes
\* SAFETY_CONCERNS or the argument of any call; however the calls are
\* interleaved, a call returns what it returns when run alone; and two
\* calls on the same input return equal results.
C15_NoInterference ==
    /\ [](pc = "concurrent" =>
            \A c \in CallIds :
                calls[c].pc = "returned" =>
                    /\ calls[c].result = AloneResult(calls[c])
                    /\ \A d \in CallIds :
                          (/\ calls[d].pc = "returned"
                           /\ calls[d].fn = calls[c].fn
                           /\ calls[d].arg = calls[c].arg)
                              => calls[d].result = calls[c].result)
    /\ [][pc = "concurrent" =>
            /\ lexicon' = lexicon
            /\ \A c \in CallIds : calls'[c].arg = calls[c].arg]_vars

\* Call 1 has returned two detections while call 2, a call of the detector
\* on the same text, is inside its loop with the first of them.
C15_Witness ==
    /\ pc = "concurrent"
    /\ calls[1].fn = "detect"
    /\ calls[1].pc = "returned"
    /\ Len(calls[1].result) = 2
    /\ calls[2].fn = "detect"
    /\ calls[2].arg = calls[1].arg
    /\ calls[2].pc = "for_category"
    /\ calls[2].i = 3
    /\ Len(calls[2].detected_events) = 1

\* The float literal 0.8999999999999999, the result of 0.7 + 0.1 + 0.1.
F_0_9_below == Float(9, -64)

\* C21: for every text, every category and every keyword of it, the
\* confidence calculate_confidence computes is, to the tenth, one of 0.4,
\* 0.5, 0.6, 0.7, 0.8, 0.9; it lies strictly between the clamp bounds 0.1
\* and 1.0 and equals the value before the clamp.
C21_ConfidenceTenthsClampIdle ==
    pc = "detected" =>
        LET low == Lower(text)
        IN  \A ci \in Categories :
                LET boosted == Boosted(ci, low)
                IN  \A k \in 1..Len(SAFETY_CONCERNS[ci].keywords) :
                        LET keyword == SAFETY_CONCERNS[ci].keywords[k]
                            c == calculate_confidence(low, keyword, SAFETY_CONCERNS[ci])
                            n == IF negation_found(low, keyword) THEN F_0_3 ELSE F_0_0
                        IN  /\ c.t \in 4..9
                            /\ c.e \in -128..128
                            /\ FloatLess(F_0_1, c)
                            /\ FloatLess(c, F_1_0)
                            /\ c = FloatSub(boosted, n)

\* The highest confidence there is, 0.7 + 0.1 + 0.1 for two burn keywords
\* and an indicator, which the upper clamp bound leaves alone.
C21_Witness ==
    /\ pc = "detected"
    /\ text = "severe burned"
    /\ Len(detected_events) = 1
    /\ detected_events[1].confidence = F_0_9_below
    /\ clamp(F_0_9_below) = F_0_9_below

---------------------------------------------------------------------------
(* Properties of the insights handler.                                     *)

\* The fields of the JSON object in the body of event: Some(<<>>) when the
\* event has no body, None when the body is null, no JSON or no object.
RequestObject(event) ==
    IF "body" \notin DOMAIN event THEN Some(<<>>)
    ELSE IF event.body = None THEN None
    ELSE IF ~event.body.val.parses THEN None
    ELSE IF event.body.val.value.type # "object" THEN None
    ELSE Some(event.body.val.value.fields)

AllWhitespace(s) == \A i \in 1..Len(s) : SubSeq(s, i, i) \in Whitespace

\* The request is a JSON object whose text is missing, empty or whitespace.
TextBlank(event) ==
    LET o == RequestObject(event)
    IN  /\ o # None
        /\ \/ "text" \notin DOMAIN o.val
           \/ /\ o.val.text.type = "string"
              /\ AllWhitespace(o.val.text.str)

\* The request is a JSON object with a string for text.
HasText(event) ==
    LET o == RequestObject(event)
    IN  o # None /\ "text" \in DOMAIN o.val /\ o.val.text.type = "string"

\* The fields of the JSON object in the body of the response.
ResponseBody == response.body.value.fields

\* The calls of name made so far.
Called(name) == {i \in 1..Len(trace) : trace[i].call = name}

\* What Bedrock came to in the call of process_with_bedrock.
Outcome == trace[CHOOSE i \in Called("process_with_bedrock") : TRUE].outcome

\* The Bedrock call or the parsing of its reply failed.
BedrockFailed(outcome) ==
    outcome.stage # "reply" \/ ~outcome.claude_response.val.parses

\* C22: a request whose text is missing, empty or whitespace-only is
\* answered with status 400 and error "Text field is required", and neither
\* the detector nor the Bedrock call is made for it.
C22_BlankText400 ==
    (pc # "handler" /\ TextBlank(request)) =>
        /\ pc = "returned"
        /\ response.statusCode = 400
        /\ ResponseBody.error = "Text field is required"
        /\ trace = <<>>

\* A whitespace-only text answered with 400.
C22_Witness ==
    /\ pc = "returned"
    /\ HasText(request)
    /\ RequestObject(request).val.text.str = " \t\n"
    /\ response.statusCode = 400
    /\ trace = <<>>

\* C23: when the Bedrock call or the parsing of its reply fails, the handler
\* returns 200 with the fallback insights (neutral, confidence 0.0, the
\* fallback recommendation), safety_concerns are the validated local
\* detections and adverse_events their event names.
C23_BedrockFailureFallback ==
    (pc = "returned" /\ Called("process_with_bedrock") # {} /\ BedrockFailed(Outcome)) =>
        LET local == validate_adverse_events(detect_adverse_events(text))
        IN  /\ response.statusCode = 200
            /\ ResponseBody.sentiment_label = "neutral"
            /\ ResponseBody.sentiment_score = F_0_0
            /\ ResponseBody.confidence = F_0_0
            /\ ResponseBody.recommendations
                   = <<"Unable to process with GenAI - using fallback">>
            /\ ResponseBody.safety_concerns = local
            /\ Len(ResponseBody.adverse_events) = Len(local)
            /\ \A i \in 1..Len(local) :
                  ResponseBody.adverse_events[i] = local[i].event

\* invoke_model raised and the two local detections are in the response.
C23_Witness ==
    /\ pc = "returned"
    /\ Called("process_with_bedrock") # {}
    /\ Outcome.stage = "invoke_model"
    /\ response.statusCode = 200
    /\ Len(ResponseBody.safety_concerns) = 2
    /\ ResponseBody.adverse_events = <<"allergic reaction", "burn">>

\* An exception is raised in the handler: the body is null, no JSON or no
\* object, the text is no string, or the model's reply is JSON but no
\* mapping.
RaisesInHandler ==
    \/ RequestObject(request) = None
    \/ /\ "text" \in DOMAIN RequestObject(request).val
       /\ RequestObject(request).val.text.type # "string"
    \/ /\ Called("process_with_bedrock") # {}
       /\ ~BedrockFailed(Outcome)
       /\ Outcome.claude_response.val.value.type # "object"

\* C24: the handler propagates no exception; it returns 200, 400 or 500,
\* and an exception raised inside it yields 500 with status "error".
C24_NoExceptionPropagates ==
    /\ pc # "raised"
    /\ pc \in {"handler", "detect_local", "bedrock", "respond", "returned"}
    /\ pc = "returned" =>
          /\ response.statusCode \in {200, 400, 500}
          /\ RaisesInHandler =>
                /\ response.statusCode = 500
                /\ ResponseBody.status = "error"
                /\ ResponseBody.error = "Internal server error"

\* The model replied a JSON list to a text with a detection: 500.
C24_Witness ==
    /\ pc = "returned"
    /\ unique_events # <<>>
    /\ Called("process_with_bedrock") # {}
    /\ Outcome = [stage |-> "reply", claude_response |-> Some(JsonText(JsonArray))]
    /\ response.statusCode = 500

\* The adverse_events process_with_bedrock returns for outcome: the
\* fallback's empty list on a failure, else the model's list, the empty
\* list when the model gave none.
ModelAdverseEvents(outcome) ==
    IF BedrockFailed(outcome) THEN <<>>
    ELSE Get(outcome.claude_response.val.value.fields, "adverse_events", <<>>)

\* C25: in a 200 response safety_concerns is
\* validate_adverse_events(detect_adverse_events(text.strip())); when it is
\* non-empty adverse_events is the list of its event names in its order,
\* whatever the model returned, and when it is empty adverse_events is the
\* model's list.
C25_SafetyConcernsAndAdverseEvents ==
    (pc = "returned" /\ response.statusCode = 200) =>
        LET stripped == Strip(RequestObject(request).val.text.str)
            local == validate_adverse_events(detect_adverse_events(stripped))
        IN  /\ ResponseBody.safety_concerns = local
            /\ local # <<>> =>
                  /\ Len(ResponseBody.adverse_events) = Len(local)
                  /\ \A i \in 1..Len(local) :
                        ResponseBody.adverse_events[i] = local[i].event
            /\ local = <<>> =>
                  ResponseBody.adverse_events = ModelAdverseEvents(Outcome)

\* The model returned ["overheating"], the detector found a burn in the
\* text once stripped: adverse_events is ["burn"].
C25_Witness ==
    /\ pc = "returned"
    /\ response.statusCode = 200
    /\ RequestObject(request).val.text.str = " no burn "
    /\ text = "no burn"
    /\ ModelAdverseEvents(Outcome) = <<"overheating">>
    /\ ResponseBody.adverse_events = <<"burn">>

---------------------------------------------------------------------------
(* The SageMaker proxy handler. *)

\* The body the proxy works on: {} when the event has no body, None when the
\* body is not JSON.
ProxyBody(event) ==
    IF "body" \notin DOMAIN event THEN Some(JsonObject(<<>>))
    ELSE IF event.body = None THEN Some(JsonObject(<<>>))
    ELSE IF event.body.val = EmptyText THEN Some(JsonObject(<<>>))
    ELSE IF ~event.body.val.parses THEN None
    ELSE Some(event.body.val.value)

\* The features of the request, None when the body is no JSON object.
FeaturesOf(event) ==
    LET b == ProxyBody(event)
    IN  IF b = None THEN None
        ELSE IF b.val.type # "object" THEN None
        ELSE IF "features" \in DOMAIN b.val.fields THEN Some(b.val.fields.features)
        ELSE Some(JsonList(<<>>))

FeaturesNonEmpty ==
    /\ FeaturesOf(request) # None
    /\ FeaturesOf(request).val.type = "array"
    /\ Len(FeaturesOf(request).val.items) > 0

FeaturesMissingOrEmpty ==
    /\ FeaturesOf(request) # None
    /\ \/ FeaturesOf(request).val.type = "null"
       \/ /\ FeaturesOf(request).val.type = "array"
          /\ FeaturesOf(request).val.items = <<>>

Matches(name) == Contains(Lower(name), "kmeans")

\* name is the first name of names that has "kmeans" in it.
FirstMatch(names, name) ==
    \E i \in 1..Len(names) :
        /\ names[i] = name
        /\ Matches(name)
        /\ \A j \in 1..(i - 1) : ~Matches(names[j])

Listed(j) ==
    /\ trace[j].call = "list_endpoints"
    /\ ~trace[j].outcome.raises

Invoked(i) == trace[i].call = "invoke_endpoint"

\* An exception is raised somewhere in the proxy handler.
ProxyRaises ==
    \/ FeaturesOf(request) = None
    \/ /\ FeaturesOf(request) # None
       /\ \/ /\ FeaturesOf(request).val.type = "number"
             /\ ~Falsy(FeaturesOf(request).val)
          \/ /\ FeaturesNonEmpty
             /\ \E r \in 1..Len(FeaturesOf(request).val.items) :
                    FeaturesOf(request).val.items[r].type # "array"
    \/ \E i \in 1..Len(trace) :
          \/ trace[i].call = "boto3.client"
          \/ trace[i].call = "list_endpoints" /\ trace[i].outcome.raises
          \/ /\ Invoked(i)
             /\ \/ trace[i].outcome.raises
                \/ ~trace[i].outcome.raises /\ ~trace[i].outcome.Body.val.parses
                \/ /\ ~trace[i].outcome.raises
                   /\ trace[i].outcome.Body.val.parses
                   /\ trace[i].outcome.Body.val.value.type # "object"

\* C26: invoke_endpoint is called only when the features of the request are a
\* non-empty array and an earlier list_endpoints returned a name that has
\* "kmeans" in it in any case, and it is called with the first such name of
\* the list; with features missing or empty neither list_endpoints nor
\* invoke_endpoint is ever called and the handler returns 400; when no listed
\* name matches, no endpoint is invoked and the handler returns 404; when an
\* exception is raised the handler returns 500.
C26_InvokeAfterFeaturesAndKmeans ==
    /\ \A i \in 1..Len(trace) :
          Invoked(i) =>
              /\ FeaturesNonEmpty
              /\ \E j \in 1..(i - 1) :
                    /\ Listed(j)
                    /\ FirstMatch(trace[j].outcome.Endpoints, trace[i].EndpointName)
    /\ FeaturesMissingOrEmpty => trace = <<>>
    /\ pc = "returned" =>
          /\ response.statusCode \in {200, 400, 404, 500}
          /\ FeaturesMissingOrEmpty => response.statusCode = 400
          /\ (\E j \in 1..Len(trace) :
                 /\ Listed(j)
                 /\ \A n \in 1..Len(trace[j].outcome.Endpoints) :
                        ~Matches(trace[j].outcome.Endpoints[n]))
                => /\ response.statusCode = 404
                   /\ \A i \in 1..Len(trace) : ~Invoked(i)
          /\ ProxyRaises => response.statusCode = 500

\* The second of three endpoints is the first with "KMeans" in its name and
\* is the one invoked; the handler returns 200.
C26_Witness ==
    /\ pc = "returned"
    /\ response.statusCode = 200
    /\ Len(trace) = 2
    /\ Listed(1)
    /\ trace[1].outcome.Endpoints = <<"churn-xgb", "Customer-KMeans-2024", "kmeans-dev">>
    /\ Invoked(2)
    /\ trace[2].EndpointName = "Customer-KMeans-2024"
    /\ trace[2].Body = "-1.14,-1.13,0.68\r\n-1.67,-0.81,-0.22"

====
